---- MODULE Spec2Model ----
(***************************************************************************)
(* A model of neurolib's recurrent cells (encoder/seq_cells.py) and of the *)
(* dataset helpers of the Model facade (models/models.py).                 *)
(*                                                                         *)
(* Three specifications share the module:                                  *)
(*   Spec          the cells: construction, initial-state registration     *)
(*                 and invocation, over a heap of builders;                *)
(*   SpecDatasets  Model.prepare_datasets, key by key;                     *)
(*   SpecBatch     Model.batch_iterator_from_dataset and Model.sample.     *)
(* The program is single threaded: a constructor that has started runs to  *)
(* its end before any other operation begins.                              *)
(***************************************************************************)
EXTENDS Integers, Sequences, FiniteSets, TLC

VARIABLES
  heap,      \* the builder objects, by identity; heap[1] is the client's builder
  cell,      \* the cell objects, by identity
  pc,        \* each cell's position in its constructor
  lastCall,  \* the latest __call__: its arguments, what the encoder got, its result
  dataset,   \* prepare_datasets: the dataset argument, an ordered dict
  dpos,      \* prepare_datasets: the number of keys the loop has consumed
  splits,    \* prepare_datasets: the three local dictionaries
  dstatus,   \* prepare_datasets: "running", "returned" or "KeyError"
  nsamps,    \* sample / batch iterator: the number of samples of the dataset
  batch_size,\* self.batch_size (0 stands for None)
  mode,      \* "iterate" (the generator alone) or "sample" (Model.sample)
  idx,       \* the generator's loop variable
  batches,   \* the batches yielded so far, each the sequence of its sample numbers
  res,       \* sample's output array: row r holds 0 or 1 + the sample written there
  icount,    \* sample's counter i
  bstatus    \* "start", "running", "returned" or "ValueError"

cellVars  == <<heap, cell, pc, lastCall>>
dataVars  == <<dataset, dpos, splits, dstatus>>
batchVars == <<nsamps, batch_size, mode, idx, batches, res, icount, bstatus>>
vars      == <<heap, cell, pc, lastCall, dataset, dpos, splits, dstatus,
               nsamps, batch_size, mode, idx, batches, res, icount, bstatus>>

(***************************************************************************)
(* Bounds of the model.                                                    *)
(***************************************************************************)
MaxStates   == 2    \* state_sizes has 1..MaxStates components
MaxArgs     == 2    \* a sequence argument of __call__ has 0..MaxArgs components
MaxCalls    == 2    \* invocations in one run, over all cells

CellIds == {1, 2}   \* the cell instances a client creates, numbered in creation order

(***************************************************************************)
(* Program constants.                                                      *)
(***************************************************************************)
TwoEncNumInputs   == 3
TwoEncNumOutputs  == 2
TriLNumInputs     == 2
TriLNumOutputs    == 1
CustomNumInputs   == 3
CustomNumOutputs  == 2
InnerNumInputs    == 2

(***************************************************************************)
(* Python values.  A tensor or node handle is a pair <<tag, number>>.  An  *)
(* argument is bare (one tensor: len() and iteration raise TypeError) or a *)
(* sequence of tensors.                                                    *)
(***************************************************************************)
Bare(t)    == [bare |-> TRUE,  items |-> <<t>>]
Tuple(s)   == [bare |-> FALSE, items |-> s]
NoneArg    == [bare |-> TRUE,  items |-> <<>>]

Arity(a)   == Len(a.items)

\* dict(enumerate(seq, start))
Enumerate(seq, start) ==
  [k \in start..(start + Len(seq) - 1) |-> seq[k - start + 1]]

\* d.update(e)
DictUpdate(d, e) ==
  [k \in (DOMAIN d) \cup (DOMAIN e) |-> IF k \in DOMAIN e THEN e[k] ELSE d[k]]

EmptyDict == [k \in {} |-> <<"none", 0>>]

\* state_sizes as the client passes them: n shapes, the i-th of dimension 2 + i
StateSizes(n) == [i \in 1..n |-> 2 + i]
StateSizeChoices == {StateSizes(n) : n \in 1..MaxStates}

\* s[a:b] of a Python sequence (0-based, half open, clipped)
Slice(s, a, b) ==
  LET lo == IF a < Len(s) THEN a ELSE Len(s)
      hi == IF b < Len(s) THEN b ELSE Len(s)
  IN  IF hi <= lo THEN <<>> ELSE [i \in 1..(hi - lo) |-> s[lo + i]]

ArgChoices(tag) ==
  {Bare(<<tag, 0>>)} \cup {Tuple([i \in 1..n |-> <<tag, i>>]) : n \in 0..MaxArgs}

(***************************************************************************)
(* Builders.  A builder holds its node table, and, for the CustomNode it   *)
(* may hold, that node's inner nodes, links and slot declarations.         *)
(***************************************************************************)
NewBuilder(scope) ==
  [scope |-> scope, nodes |-> <<>>, inner |-> <<>>, links |-> {},
   islots |-> <<>>, oslots |-> <<>>, committed |-> FALSE, error |-> "none"]

Node(class, shape, nin, nout) ==
  [class |-> class, shape |-> shape, num_inputs |-> nin, num_outputs |-> nout]

\* builder.addInput(shape, iclass=NormalInputNode): one more node, no islot
AddInput(b, shape) ==
  [b EXCEPT !.nodes = Append(b.nodes, Node("NormalInputNode", shape, 0, 1))]

\* builder.addInner(shape, num_inputs, node_class, name)
AddInner(b, shape, nin, class) ==
  [b EXCEPT !.nodes = Append(b.nodes, Node(class, shape, nin, 1))]

\* builder.createCustomNode(num_inputs, num_outputs, name)
CreateCustomNode(b, nin, nout) ==
  [b EXCEPT !.nodes = Append(b.nodes, Node("CustomNode", <<>>, nin, nout))]

\* cust.addInner(shape, num_inputs): a node of the custom node's inner builder
CustAddInner(b, shape, nin) ==
  [b EXCEPT !.inner = Append(b.inner, Node("InnerNode", shape, nin, 1))]

Occupied(b, dst, islot) ==
  \E l \in b.links : l.dst = dst /\ l.islot = islot

\* cust.addDirectedLink(src, dst, oslot, islot)
CustAddDirectedLink(b, src, dst, oslot, islot) ==
  IF b.error # "none" THEN b
  ELSE IF \/ src \notin DOMAIN b.inner
          \/ dst \notin DOMAIN b.inner
          \/ Occupied(b, dst, islot)
          \/ oslot >= b.inner[src].num_outputs
       THEN [b EXCEPT !.error = "WiringError"]
       ELSE [b EXCEPT !.links = b.links \cup
               {[src |-> src, oslot |-> oslot, dst |-> dst, islot |-> islot]}]

\* cust.declareIslot(islot, innernode_name, inode_islot)
DeclareIslot(b, islot, node, inode_islot) ==
  IF b.error # "none" THEN b
  ELSE IF islot < 0 \/ islot >= b.nodes[Len(b.nodes)].num_inputs
       THEN [b EXCEPT !.error = "RangeError"]
       ELSE IF \E i \in DOMAIN b.islots : b.islots[i].slot = islot
            THEN [b EXCEPT !.error = "DuplicateDeclarationError"]
            ELSE [b EXCEPT !.islots = Append(b.islots,
                    [slot |-> islot, node |-> node, inode_slot |-> inode_islot])]

\* cust.declareOslot(oslot, innernode_name, inode_oslot)
DeclareOslot(b, oslot, node, inode_oslot) ==
  IF b.error # "none" THEN b
  ELSE IF oslot < 0 \/ oslot >= b.nodes[Len(b.nodes)].num_outputs
       THEN [b EXCEPT !.error = "RangeError"]
       ELSE [b EXCEPT !.oslots = Append(b.oslots,
               [slot |-> oslot, node |-> node, inode_slot |-> inode_oslot])]

\* The sources feeding islot s of inner node k: links and declared external islots.
LinkSources(b, k, s) == {l \in b.links : l.dst = k /\ l.islot = s}
DeclSources(b, k, s) ==
  {i \in DOMAIN b.islots : b.islots[i].node = k /\ b.islots[i].inode_slot = s}
NumSources(b, k, s) ==
  Cardinality(LinkSources(b, k, s)) + Cardinality(DeclSources(b, k, s))

\* The inner nodes reachable from k along links, in at most Len(b.inner) steps.
RECURSIVE ReachableIn(_, _, _)
ReachableIn(b, from, steps) ==
  IF steps = 0 THEN from
  ELSE ReachableIn(b, from \cup {l.dst : l \in {m \in b.links : m.src \in from}},
                   steps - 1)
Successors(b, k) == {l.dst : l \in {m \in b.links : m.src = k}}
HasCycle(b) ==
  \E k \in DOMAIN b.inner : k \in ReachableIn(b, Successors(b, k), Len(b.inner))

\* cust.commit(): the inner builder is validated, then frozen
Commit(b) ==
  IF b.error # "none" THEN b
  ELSE IF \E k \in DOMAIN b.inner :
            \E s \in 0..(b.inner[k].num_inputs - 1) : NumSources(b, k, s) = 0
       THEN [b EXCEPT !.error = "UnresolvedSlotError"]
       ELSE IF HasCycle(b)
            THEN [b EXCEPT !.error = "CycleError"]
            ELSE [b EXCEPT !.committed = TRUE]

(***************************************************************************)
(* The cells.                                                              *)
(***************************************************************************)
NoCell ==
  [kind |-> "none", state_dims |-> <<>>, ext_builder |-> 0, builder |-> 0,
   num_expected_inputs |-> 0, num_expected_outputs |-> 0, encoder |-> 0,
   init_states |-> <<>>, calls |-> 0, threaded |-> TRUE, returned |-> NoneArg]

NoCall ==
  [cell |-> 0, inputs |-> NoneArg, state |-> NoneArg, threaded |-> FALSE,
   is_map |-> FALSE, map |-> EmptyDict, pos_inputs |-> NoneArg,
   pos_state |-> NoneArg, raised |-> "none", output |-> NoneArg,
   new_state |-> NoneArg]

RECURSIVE SumCalls(_, _)
SumCalls(f, S) ==
  IF S = {} THEN 0
  ELSE LET c == CHOOSE x \in S : TRUE IN f[c].calls + SumCalls(f, S \ {c})

\* The invocations made so far.
TotalCalls == SumCalls(cell, CellIds)

\* No constructor is running.
Idle == \A c \in CellIds : pc[c] \in {"unborn", "ready", "failed"}

\* The identity of the object StaticBuilder(scope='Cell') returns: a new one.
SharedStaticBuilder(h) == IF Len(h) >= 2 THEN 2 ELSE Len(h) + 1
StaticBuilder(h) == Len(h) + 1

\* The heap once the builder object `id` has been created.
Alloc(h, id) ==
  [i \in 1..(IF id > Len(h) THEN id ELSE Len(h)) |->
     IF i = id THEN NewBuilder("Cell") ELSE h[i]]

\* CustomCell.__init__(num_inputs, num_outputs, builder)
CustomCellInit(kind, num_inputs, num_outputs, builder, private) ==
  [NoCell EXCEPT !.kind = kind,
                 !.ext_builder = builder,
                 !.builder = private,
                 !.num_expected_inputs = num_inputs,
                 !.num_expected_outputs = num_outputs]

\* TwoEncodersCell.__init__, up to the call of declare_cell_encoder
NewTwoEncodersCell(c, state_sizes) ==
  /\ Idle
  /\ pc[c] = "unborn"
  /\ \A d \in CellIds : d < c => pc[d] # "unborn"
  /\ LET id == StaticBuilder(heap)
     IN  /\ heap' = Alloc(heap, id)
         /\ cell' = [cell EXCEPT ![c] =
              [CustomCellInit("TwoEncodersCell", TwoEncNumInputs,
                              TwoEncNumOutputs, 1, id)
                 EXCEPT !.state_dims = state_sizes]]
  /\ pc' = [pc EXCEPT ![c] = "declare"]
  /\ UNCHANGED <<lastCall, dataVars, batchVars>>

\* The wiring of TwoEncodersCell.declare_cell_encoder, before its commit.
\* cust_in1 and cust_in2 are the inner nodes 1 and 2.
TwoEncWiringCrossed(b, state_size) ==
  LET b1 == CreateCustomNode(b, CustomNumInputs, CustomNumOutputs)
      b2 == CustAddInner(b1, Slice(state_size, 0, 1), InnerNumInputs)
      b3 == CustAddInner(b2, Slice(state_size, 1, 2), InnerNumInputs)
      b4 == CustAddDirectedLink(b3, 1, 2, 0, 1)
      b5 == DeclareIslot(b4, 0, 1, 0)
      b6 == DeclareIslot(b5, 1, 2, 0)
      b7 == DeclareIslot(b6, 2, 2, 1)
      b8 == DeclareOslot(b7, 0, 1, 0)
  IN  DeclareOslot(b8, 1, 2, 0)

TwoEncWiring(b, state_size) ==
  LET b1 == CreateCustomNode(b, CustomNumInputs, CustomNumOutputs)
      b2 == CustAddInner(b1, Slice(state_size, 0, 1), InnerNumInputs)
      b3 == CustAddInner(b2, Slice(state_size, 1, 2), InnerNumInputs)
      b4 == CustAddDirectedLink(b3, 1, 2, 0, 1)
      b5 == DeclareIslot(b4, 0, 1, 0)
      b6 == DeclareIslot(b5, 1, 2, 0)
      b7 == DeclareIslot(b6, 2, 1, 1)
      b8 == DeclareOslot(b7, 0, 1, 0)
  IN  DeclareOslot(b8, 1, 2, 0)

\* TwoEncodersCell.declare_cell_encoder, lines 120-130
TwoEncDeclareCellEncoder(c) ==
  /\ pc[c] = "declare"
  /\ cell[c].kind = "TwoEncodersCell"
  /\ LET b == TwoEncWiring(heap[cell[c].builder], cell[c].state_dims)
     IN  /\ heap' = [heap EXCEPT ![cell[c].builder] = b]
         /\ pc' = [pc EXCEPT ![c] = IF b.error = "none" THEN "commit" ELSE "failed"]
  /\ UNCHANGED <<cell, lastCall, dataVars, batchVars>>

\* TwoEncodersCell.declare_cell_encoder, lines 131-133, and the assignment of
\* self.encoder
TwoEncCommit(c) ==
  /\ pc[c] = "commit"
  /\ LET b == Commit(heap[cell[c].builder])
     IN  /\ heap' = [heap EXCEPT ![cell[c].builder] = b]
         /\ IF b.error = "none"
            THEN /\ cell' = [cell EXCEPT ![c].encoder = Len(b.nodes)]
                 /\ pc' = [pc EXCEPT ![c] = "init_states"]
            ELSE /\ cell' = cell
                 /\ pc' = [pc EXCEPT ![c] = "failed"]
  /\ UNCHANGED <<lastCall, dataVars, batchVars>>

\* The handle of the node addInput has just added to builder b.
Handle(b) == <<"node", Len(b.nodes)>>

\* The builder TwoEncodersCell._get_init_states registers on: self.ext_builder
TwoEncInitBuilder(c) == cell[c].ext_builder

\* TwoEncodersCell._get_init_states, called by the constructor
TwoEncGetInitStates(c) ==
  /\ pc[c] = "init_states"
  /\ LET target == TwoEncInitBuilder(c)
         e1 == AddInput(heap[target], Slice(cell[c].state_dims, 0, 1))
         e2 == AddInput(e1, Slice(cell[c].state_dims, 1, Len(cell[c].state_dims)))
     IN  /\ heap' = [heap EXCEPT ![target] = e2]
         /\ cell' = [cell EXCEPT ![c].init_states = <<Handle(e1), Handle(e2)>>]
  /\ pc' = [pc EXCEPT ![c] = "ready"]
  /\ UNCHANGED <<lastCall, dataVars, batchVars>>

\* NormalTriLCell.__init__, up to the call of declare_cell_encoder
NewNormalTriLCell(c, state_sizes) ==
  /\ Idle
  /\ pc[c] = "unborn"
  /\ \A d \in CellIds : d < c => pc[d] # "unborn"
  /\ LET id == StaticBuilder(heap)
     IN  /\ heap' = Alloc(heap, id)
         /\ cell' = [cell EXCEPT ![c] =
              [CustomCellInit("NormalTriLCell", TriLNumInputs, TriLNumOutputs, 0, id)
                 EXCEPT !.state_dims = state_sizes]]
  /\ pc' = [pc EXCEPT ![c] = "declare"]
  /\ UNCHANGED <<lastCall, dataVars, batchVars>>

\* NormalTriLCell.declare_cell_encoder: one node on the private builder, no commit
TriLDeclareCellEncoder(c) ==
  /\ pc[c] = "declare"
  /\ cell[c].kind = "NormalTriLCell"
  /\ LET b == AddInner(heap[cell[c].builder], cell[c].state_dims, InnerNumInputs,
                       "NormalTriLNode")
     IN  /\ heap' = [heap EXCEPT ![cell[c].builder] = b]
         /\ cell' = [cell EXCEPT ![c].encoder = Len(b.nodes)]
  /\ pc' = [pc EXCEPT ![c] = "ready"]
  /\ UNCHANGED <<lastCall, dataVars, batchVars>>

\* The shapes NormalTriLCell.get_init_states registers: one node, of shape
\* self.state_dims
TriLInitShapes(state_dims) == <<state_dims>>

RECURSIVE AddInputs(_, _)
AddInputs(b, shapes) ==
  IF shapes = <<>> THEN b ELSE AddInputs(AddInput(b, Head(shapes)), Tail(shapes))

\* cell.get_init_states(ext_builder), with the client's builder: NormalTriLCell
\* registers on it; TwoEncodersCell inherits CustomCell's, which raises.
GetInitStates(c) ==
  /\ Idle
  /\ pc[c] = "ready"
  /\ IF cell[c].kind = "NormalTriLCell"
     THEN /\ cell[c].init_states = <<>>   \* the driver asks once per cell
          /\ LET shapes == TriLInitShapes(cell[c].state_dims)
                 e == AddInputs(heap[1], shapes)
                 handles == [i \in 1..Len(shapes) |->
                               <<"node", Len(heap[1].nodes) + i>>]
             IN  /\ heap' = [heap EXCEPT ![1] = e]
                 /\ cell' = [cell EXCEPT ![c].init_states = handles]
     ELSE \* raise NotImplementedError: nothing is registered, nothing returned
          UNCHANGED <<heap, cell>>
  /\ UNCHANGED <<pc, lastCall, dataVars, batchVars>>

(***************************************************************************)
(* Invocation.                                                             *)
(***************************************************************************)
\* TwoEncodersCell.__call__, lines 140-153: the islot -> tensor mapping.
\* len(state) and enumerate(inputs) raise TypeError on a bare value.
IslotToItensorFromZero(inputs, state) ==
  LET st == IF state.bare THEN <<state.items[1]>> ELSE state.items
      islot_states == Enumerate(st, 0)
  IN  IF inputs.bare
      THEN DictUpdate(islot_states, [k \in {0} |-> inputs.items[1]])
      ELSE DictUpdate(islot_states, Enumerate(inputs.items, 0))

IslotToItensor(inputs, state) ==
  LET st == IF state.bare THEN <<state.items[1]>> ELSE state.items
      num_init_states == Len(st)
      islot_states == Enumerate(st, 0)
  IN  IF inputs.bare
      THEN DictUpdate(islot_states, [k \in {num_init_states} |-> inputs.items[1]])
      ELSE DictUpdate(islot_states, Enumerate(inputs.items, num_init_states))

\* Calling a node of a builder: one output tensor per oslot of the node.
EncoderOutputs(node) == [o \in 1..node.num_outputs |-> <<"out", o - 1>>]

\* The state an unrolling driver passes: the init states on the first call, the
\* state the previous call returned afterwards.
ThreadedState(c) ==
  IF cell[c].calls = 0 THEN Tuple(cell[c].init_states) ELSE cell[c].returned

StateChoices(c) == ArgChoices("s") \cup {ThreadedState(c)}

\* This call and every earlier one of the cell were made the driver's way.
IsThreaded(c, state) ==
  /\ cell[c].threaded
  /\ cell[c].init_states # <<>>
  /\ state = ThreadedState(c)

\* TwoEncodersCell.__call__(inputs, state)
TwoEncCall(c, inputs, state) ==
  /\ Idle
  /\ pc[c] = "ready"
  /\ cell[c].kind = "TwoEncodersCell"
  /\ TotalCalls < MaxCalls
  /\ LET map == IslotToItensor(inputs, state)
         outs == EncoderOutputs(heap[cell[c].builder].nodes[cell[c].encoder])
         thr == IsThreaded(c, state)
     IN  IF Len(outs) = 2
         THEN \* output, _ = self.encoder(...); return (output, output)
              /\ lastCall' = [NoCall EXCEPT !.cell = c, !.inputs = inputs,
                                !.state = state, !.threaded = thr,
                                !.is_map = TRUE, !.map = map,
                                !.output = Bare(outs[1]),
                                !.new_state = Bare(outs[1])]
              /\ cell' = [cell EXCEPT ![c].calls = @ + 1,
                                      ![c].threaded = thr,
                                      ![c].returned = Bare(outs[1])]
         ELSE /\ lastCall' = [NoCall EXCEPT !.cell = c, !.inputs = inputs,
                                !.state = state, !.is_map = TRUE, !.map = map,
                                !.raised = "ValueError"]
              /\ cell' = [cell EXCEPT ![c].calls = @ + 1, ![c].threaded = FALSE]
  /\ UNCHANGED <<heap, pc, dataVars, batchVars>>

\* NormalTriLCell.__call__(inputs, islot_to_itensor), called as cell(inputs, state):
\* both arguments go to the encoder as they are.
TriLCall(c, inputs, state) ==
  /\ Idle
  /\ pc[c] = "ready"
  /\ cell[c].kind = "NormalTriLCell"
  /\ TotalCalls < MaxCalls
  /\ LET outs == EncoderOutputs(heap[cell[c].builder].nodes[cell[c].encoder])
         thr == IsThreaded(c, state)
     IN  /\ lastCall' = [NoCall EXCEPT !.cell = c, !.inputs = inputs,
                           !.state = state, !.threaded = thr,
                           !.pos_inputs = inputs, !.pos_state = state,
                           !.output = Bare(outs[1]),
                           !.new_state = Bare(outs[1])]
         /\ cell' = [cell EXCEPT ![c].calls = @ + 1,
                                 ![c].threaded = thr,
                                 ![c].returned = Bare(outs[1])]
  /\ UNCHANGED <<heap, pc, dataVars, batchVars>>

(***************************************************************************)
(* The cells' specification.                                               *)
(***************************************************************************)
DataIdle ==
  /\ dataset = <<>>
  /\ dpos = 0
  /\ splits = [train |-> {}, valid |-> {}, test |-> {}]
  /\ dstatus = "idle"

BatchIdle ==
  /\ nsamps = 0
  /\ batch_size = 0
  /\ mode = "idle"
  /\ idx = 0
  /\ batches = <<>>
  /\ res = <<>>
  /\ icount = 0
  /\ bstatus = "idle"

Init ==
  /\ heap = <<NewBuilder("Main")>>
  /\ cell = [c \in CellIds |-> NoCell]
  /\ pc = [c \in CellIds |-> "unborn"]
  /\ lastCall = NoCall
  /\ DataIdle
  /\ BatchIdle

Next ==
  \/ \E c \in CellIds, s \in StateSizeChoices : NewTwoEncodersCell(c, s)
  \/ \E c \in CellIds : TwoEncDeclareCellEncoder(c)
  \/ \E c \in CellIds : TwoEncCommit(c)
  \/ \E c \in CellIds : TwoEncGetInitStates(c)
  \/ \E c \in CellIds, s \in StateSizeChoices : NewNormalTriLCell(c, s)
  \/ \E c \in CellIds : TriLDeclareCellEncoder(c)
  \/ \E c \in CellIds : GetInitStates(c)
  \/ \E c \in CellIds, i \in ArgChoices("x") :
       \E s \in StateChoices(c) : TwoEncCall(c, i, s)
  \/ \E c \in CellIds, i \in ArgChoices("x") :
       \E s \in StateChoices(c) : TriLCall(c, i, s)

Spec == Init /\ [][Next]_vars

(***************************************************************************)
(* Properties of the cells.                                                *)
(***************************************************************************)
\* The properties state_size and output_size of both concrete cells.
StateSize(c)  == cell[c].state_dims
OutputSize(c) == cell[c].state_dims

Born(c)     == pc[c] \notin {"unborn", "failed"}
IsTwoEnc(c) == c \in CellIds /\ cell[c].kind = "TwoEncodersCell"

\* C1: whenever TwoEncodersCell.__call__ is given a state sequence of n components
\* and an inputs sequence of m components, the mapping handed to the encoder has
\* exactly the keys 0..n+m-1, key i holding state[i] and key n+j holding inputs[j].
C1_StatesFirstInputsAfter ==
  (/\ IsTwoEnc(lastCall.cell)
   /\ ~lastCall.state.bare
   /\ ~lastCall.inputs.bare)
  => LET n == Arity(lastCall.state)
         m == Arity(lastCall.inputs)
     IN  /\ lastCall.is_map
         /\ DOMAIN lastCall.map = 0..(n + m - 1)
         /\ \A i \in 0..(n - 1) : lastCall.map[i] = lastCall.state.items[i + 1]
         /\ \A j \in 0..(m - 1) : lastCall.map[n + j] = lastCall.inputs.items[j + 1]

\* A TwoEncodersCell was called with its two init states and two inputs.
C1_Witness ==
  /\ IsTwoEnc(lastCall.cell)
  /\ ~lastCall.state.bare /\ Arity(lastCall.state) = 2
  /\ ~lastCall.inputs.bare /\ Arity(lastCall.inputs) = 2
  /\ DOMAIN lastCall.map = 0..3

\* C2: a call of any cell with a bare previous state and a bare inputs value does
\* not raise, and the encoder receives the mapping {0: state, 1: inputs}.
C2_BareArgumentsNormalized ==
  (/\ lastCall.cell \in CellIds
   /\ lastCall.state.bare
   /\ lastCall.inputs.bare)
  => /\ lastCall.raised = "none"
     /\ lastCall.is_map
     /\ DOMAIN lastCall.map = {0, 1}
     /\ lastCall.map[0] = lastCall.state.items[1]
     /\ lastCall.map[1] = lastCall.inputs.items[1]

\* C3: once a cell's initial states have been registered, there are as many
\* handles as state_size has components, the i-th registered with the i-th
\* component's shape, and output_size equals state_size.
C3_InitStatesMatchStateSize ==
  \A c \in CellIds :
    (pc[c] = "ready" /\ cell[c].init_states # <<>>)
    => /\ Len(cell[c].init_states) = Len(StateSize(c))
       /\ \A i \in 1..Len(cell[c].init_states) :
            heap[1].nodes[cell[c].init_states[i][2]].shape = <<StateSize(c)[i]>>
       /\ OutputSize(c) = StateSize(c)

\* C4: the step that registers a cell's initial states adds one input node per
\* state component to the client's builder and leaves the cell's private builder
\* as it was.
C4_RegistrationOnExternalBuilderOnly ==
  [][\A c \in CellIds :
       (Born(c) /\ cell'[c].init_states # cell[c].init_states)
       => /\ Len(heap'[1].nodes) = Len(heap[1].nodes) + Len(StateSize(c))
          /\ heap'[cell[c].builder] = heap[cell[c].builder]]_vars

\* The lifecycle state of a cell, read off the program's state.
LifeRank(c) ==
  IF ~Born(c) THEN 0                                   \* no object yet
  ELSE IF cell[c].calls > 0 THEN 4                     \* Invoked
  ELSE IF heap[cell[c].builder].committed THEN 3       \* StepGraphBuilt
  ELSE IF heap[cell[c].builder].nodes # <<>> THEN 2    \* WiringDeclared
  ELSE 1                                               \* Constructed

\* C5: for both cells, the first invocation happens after the commit of the private
\* one-step graph, and no step takes a cell to an earlier lifecycle state.
C5_LifecycleForward ==
  [][\A c \in CellIds :
       /\ (Born(c) /\ cell[c].calls = 0 /\ cell'[c].calls > 0)
            => heap[cell[c].builder].committed
       /\ LifeRank(c)' >= LifeRank(c)]_vars

\* C7: in a run where every call of a two-state TwoEncodersCell takes the state the
\* previous call returned (the first one the init states) and one bare input, each
\* call hands the encoder exactly the islots 0..num_expected_inputs-1 and returns a
\* state of as many components as state_size.
C7_ThreadedCallsFillEveryIslot ==
  (/\ IsTwoEnc(lastCall.cell)
   /\ lastCall.threaded
   /\ Len(StateSize(lastCall.cell)) = 2
   /\ lastCall.inputs.bare)
  => /\ DOMAIN lastCall.map = 0..(cell[lastCall.cell].num_expected_inputs - 1)
     /\ Arity(lastCall.new_state) = Len(StateSize(lastCall.cell))

\* C7, its first half alone: the keys of the mapping.
C7_ThreadedCallsKeys ==
  (/\ IsTwoEnc(lastCall.cell)
   /\ lastCall.threaded
   /\ Len(StateSize(lastCall.cell)) = 2
   /\ lastCall.inputs.bare)
  => DOMAIN lastCall.map = 0..(cell[lastCall.cell].num_expected_inputs - 1)

\* The builder invariants on the custom node a builder holds.
SlotsFedOnce(b) ==
  \A k \in DOMAIN b.inner :
    \A s \in 0..(b.inner[k].num_inputs - 1) : NumSources(b, k, s) = 1

IslotAliasesOk(b) ==
  \A e \in 0..(CustomNumInputs - 1) :
    /\ Cardinality({i \in DOMAIN b.islots : b.islots[i].slot = e}) = 1
    /\ \A i \in DOMAIN b.islots :
         /\ b.islots[i].slot \in 0..(CustomNumInputs - 1)
         /\ b.islots[i].node \in DOMAIN b.inner
         /\ b.islots[i].inode_slot \in 0..(b.inner[b.islots[i].node].num_inputs - 1)

OslotAliasesOk(b) ==
  \A e \in 0..(CustomNumOutputs - 1) :
    /\ Cardinality({i \in DOMAIN b.oslots : b.oslots[i].slot = e}) = 1
    /\ \A i \in DOMAIN b.oslots :
         /\ b.oslots[i].slot \in 0..(CustomNumOutputs - 1)
         /\ b.oslots[i].node \in DOMAIN b.inner
         /\ b.oslots[i].inode_slot \in 0..(b.inner[b.oslots[i].node].num_outputs - 1)

\* C8: when TwoEncodersCell.declare_cell_encoder is about to call commit(), the two
\* inner nodes have each of their 2 islots fed by exactly one source, every external
\* islot 0..2 and oslot 0..1 aliases exactly one inner slot inside the declared
\* ranges, and the links have no cycle.
C8_WiringCompleteAtCommit ==
  \A c \in CellIds :
    pc[c] = "commit"
    => LET b == heap[cell[c].builder]
       IN  /\ b.error = "none"
           /\ Len(b.inner) = 2
           /\ \A k \in DOMAIN b.inner : b.inner[k].num_inputs = 2
           /\ SlotsFedOnce(b)
           /\ IslotAliasesOk(b)
           /\ OslotAliasesOk(b)
           /\ ~HasCycle(b)

\* A TwoEncodersCell stands right before its commit, its link in place.
C8_Witness ==
  \E c \in CellIds :
    /\ pc[c] = "commit"
    /\ heap[cell[c].builder].links # {}
    /\ Len(heap[cell[c].builder].islots) = 3

\* C9: every cell has a private builder of its own; once the constructor has
\* returned, the cell stays constructed and no step (another cell's construction,
\* a registration, an invocation) changes its private builder; and an invocation
\* changes no builder at all.
C9_StepGraphBuiltOncePerCell ==
  /\ [](\A c, d \in CellIds :
          (Born(c) /\ Born(d) /\ c # d)
          => /\ cell[c].builder # cell[d].builder
             /\ cell[c].builder # 1)
  /\ [][\A c \in CellIds :
          pc[c] = "ready"
          => /\ pc'[c] = "ready"
             /\ cell'[c].builder = cell[c].builder
             /\ heap'[cell[c].builder] = heap[cell[c].builder]]_vars
  /\ [][TotalCalls' > TotalCalls => heap' = heap]_vars

\* Two cells are constructed, one of each kind, and one of them has been invoked.
C9_Witness ==
  /\ \A c \in CellIds : pc[c] = "ready"
  /\ cell[1].kind # cell[2].kind
  /\ TotalCalls > 0

(***************************************************************************)
(* Model.prepare_datasets.  A key is a sequence of symbols: "_" is the     *)
(* underscore, every other symbol a run of characters without one.         *)
(***************************************************************************)
MaxKeys == 2    \* the dataset holds 0..MaxKeys keys

PrefixChoices ==
  {<<"train">>, <<"valid">>, <<"test">>, <<"x">>, <<"train", "x">>, <<>>}
RestChoices == {<<>>, <<"_">>, <<"_", "x">>, <<"_", "x", "_", "y">>}
KeyChoices == {p \o r : p \in PrefixChoices, r \in RestChoices}

\* The ordered dicts of n distinct keys; the i-th key's value is i.
DatasetChoices(n) ==
  {[i \in 1..n |-> [key |-> ks[i], value |-> i]] :
     ks \in {f \in [1..n -> KeyChoices] : \A i, j \in 1..n : i # j => f[i] # f[j]}}

\* key.split('_')
RECURSIVE Split(_)
Split(key) ==
  IF key = <<>> THEN <<(<<>>)>>
  ELSE LET rest == Split(Tail(key))
       IN  IF Head(key) = "_" THEN <<(<<>>)>> \o rest
           ELSE <<(<<Head(key)>> \o Head(rest))>> \o Tail(rest)

\* "_".join(segments)
RECURSIVE Join(_)
Join(segs) ==
  IF segs = <<>> THEN <<>>
  ELSE IF Len(segs) = 1 THEN Head(segs)
  ELSE Head(segs) \o <<"_">> \o Join(Tail(segs))

\* d_set, inode = key.split('_')[0], "_".join(key.split('_')[1:])
DSet(key) == Split(key)[1]

InodeSecondSegment(key) ==
  IF Len(Split(key)) > 1 THEN Split(key)[2] ELSE <<>>
Inode(key) == Join(Tail(Split(key)))

\* self.main_scope
MainScope == "Main"

\* scope + '/' + inode + '_main:0'
TensorName(inode) == <<MainScope, "/">> \o inode \o <<"_main:0">>

\* d[name] = value, on a dict held as its set of items
DictSet(d, name, value) == {it \in d : it[1] # name} \cup {<<name, value>>}

NoSplits == [train |-> {}, valid |-> {}, test |-> {}]

\* One pass of the loop of prepare_datasets, lines 118-129
PrepareStep ==
  /\ dstatus = "running"
  /\ dpos < Len(dataset)
  /\ LET key == dataset[dpos + 1].key
         value == dataset[dpos + 1].value
         d_set == DSet(key)
         name == TensorName(Inode(key))
     IN  IF d_set = <<"train">>
         THEN /\ splits' = [splits EXCEPT !.train = DictSet(@, name, value)]
              /\ dstatus' = dstatus
         ELSE IF d_set = <<"valid">>
         THEN /\ splits' = [splits EXCEPT !.valid = DictSet(@, name, value)]
              /\ dstatus' = dstatus
         ELSE IF d_set = <<"test">>
         THEN /\ splits' = [splits EXCEPT !.test = DictSet(@, name, value)]
              /\ dstatus' = dstatus
         ELSE /\ splits' = splits
              /\ dstatus' = "KeyError"
  /\ dpos' = dpos + 1
  /\ UNCHANGED <<dataset, cellVars, batchVars>>

\* The return of prepare_datasets, lines 131-133
PrepareReturn ==
  /\ dstatus = "running"
  /\ dpos = Len(dataset)
  /\ dstatus' = "returned"
  /\ UNCHANGED <<dataset, dpos, splits, cellVars, batchVars>>

CellsIdle ==
  /\ heap = <<NewBuilder("Main")>>
  /\ cell = [c \in CellIds |-> NoCell]
  /\ pc = [c \in CellIds |-> "unborn"]
  /\ lastCall = NoCall

InitDatasets ==
  /\ \E n \in 0..MaxKeys : dataset \in DatasetChoices(n)
  /\ dpos = 0
  /\ splits = NoSplits
  /\ dstatus = "running"
  /\ CellsIdle
  /\ BatchIdle

NextDatasets == PrepareStep \/ PrepareReturn

SpecDatasets == InitDatasets /\ [][NextDatasets]_vars

\* The part of a key before its first "_", and the part after it.
FirstUnderscore(key) ==
  IF \E i \in DOMAIN key : key[i] = "_"
  THEN CHOOSE i \in DOMAIN key :
         key[i] = "_" /\ \A j \in 1..(i - 1) : key[j] # "_"
  ELSE Len(key) + 1
KeyPrefix(key) == SubSeq(key, 1, FirstUnderscore(key) - 1)
KeyRest(key)   == SubSeq(key, FirstUnderscore(key) + 1, Len(key))

GoodPrefixes == {<<"train">>, <<"valid">>, <<"test">>}
BadKeys == {i \in DOMAIN dataset : KeyPrefix(dataset[i].key) \notin GoodPrefixes}

ExpectedSplit(prefix) ==
  {<<(<<MainScope, "/">> \o KeyRest(dataset[i].key) \o <<"_main:0">>),
     dataset[i].value>> :
     i \in {j \in DOMAIN dataset : KeyPrefix(dataset[j].key) = prefix}}

\* C6 as first stated: when prepare_datasets returns, no key had a prefix other than
\* train, valid or test, and each split holds one entry per key of its prefix, under
\* the name '<scope>/<rest of key>_main:0' with the key's value; a dataset holding a
\* key with another prefix ends in KeyError and never returns.
C6_EveryKeyLands ==
  /\ dstatus = "returned"
     => /\ BadKeys = {}
        /\ splits.train = ExpectedSplit(<<"train">>)
        /\ splits.valid = ExpectedSplit(<<"valid">>)
        /\ splits.test = ExpectedSplit(<<"test">>)
        /\ Cardinality(splits.train) + Cardinality(splits.valid)
             + Cardinality(splits.test) = Len(dataset)
  /\ (BadKeys # {} /\ dstatus # "running") => dstatus = "KeyError"
  /\ dstatus = "KeyError" => BadKeys # {}

SplitOf(prefix) ==
  IF prefix = <<"train">> THEN splits.train
  ELSE IF prefix = <<"valid">> THEN splits.valid
  ELSE splits.test

\* The keys of a prefix that no later key of the same prefix and rest overrides.
Surviving(prefix) ==
  {i \in DOMAIN dataset :
     /\ KeyPrefix(dataset[i].key) = prefix
     /\ \A j \in DOMAIN dataset :
          (j > i /\ KeyPrefix(dataset[j].key) = prefix)
          => KeyRest(dataset[j].key) # KeyRest(dataset[i].key)}

ExpectedSplitLastWins(prefix) ==
  {<<(<<MainScope, "/">> \o KeyRest(dataset[i].key) \o <<"_main:0">>),
     dataset[i].value>> : i \in Surviving(prefix)}

\* C6, amended: when prepare_datasets returns, no key had a prefix other than train,
\* valid or test, and each split holds, under the name '<scope>/<rest of key>_main:0'
\* and with its value, every key of its prefix except a key that a later key of the
\* same prefix and the same rest replaces; a dataset holding a key with another
\* prefix ends in KeyError and never returns.
C6_SplitByPrefix ==
  /\ dstatus = "returned"
     => /\ BadKeys = {}
        /\ splits.train = ExpectedSplitLastWins(<<"train">>)
        /\ splits.valid = ExpectedSplitLastWins(<<"valid">>)
        /\ splits.test = ExpectedSplitLastWins(<<"test">>)
        /\ \A i \in DOMAIN dataset :
             Cardinality({q \in GoodPrefixes :
                            \E it \in SplitOf(q) : it[2] = dataset[i].value})
               = (IF i \in Surviving(KeyPrefix(dataset[i].key)) THEN 1 ELSE 0)
  /\ (BadKeys # {} /\ dstatus # "running") => dstatus = "KeyError"
  /\ dstatus = "KeyError" => BadKeys # {}

\* A dataset of two train keys was split, one key with a "_" inside its rest.
C6_Witness ==
  /\ dstatus = "returned"
  /\ Len(dataset) = 2
  /\ Cardinality(splits.train) = 2
  /\ \E i \in DOMAIN dataset : Len(Split(dataset[i].key)) = 3

(***************************************************************************)
(* Model.batch_iterator_from_dataset and Model.sample.  Sample s of the    *)
(* dataset is the number s (0-based); running the graph on a batch gives   *)
(* one result row per sample, held here as 1 + the sample's number.        *)
(***************************************************************************)
MaxSamples == 6    \* the dataset has 0..MaxSamples samples
MaxBatch   == 3    \* self.batch_size is None or 1..MaxBatch

\* np.arange(nsamps), not shuffled
Arange(n) == [i \in 1..n |-> i - 1]

\* The batch the generator yields for loop index i: value[l_inds[i : i + b]]
BatchOf(l_inds, i, b) == Slice(l_inds, i, i + b)

\* sess.run on a batch: one row per sample
RunBatch(batch) == [k \in 1..Len(batch) |-> batch[k] + 1]

\* res[i : i + b] = r, for r of as many rows as the slice has
AssignRows(a, i, b, r) ==
  LET lo == IF i < Len(a) THEN i ELSE Len(a)
      hi == IF i + b < Len(a) THEN i + b ELSE Len(a)
  IN  [k \in 1..Len(a) |-> IF k > lo /\ k <= hi THEN r[k - lo] ELSE a[k]]

RowsInSlice(a, i, b) ==
  LET lo == IF i < Len(a) THEN i ELSE Len(a)
      hi == IF i + b < Len(a) THEN i + b ELSE Len(a)
  IN  hi - lo

\* Model.sample up to its loop (lines 171-184), or the first next() of a client
\* iterating batch_iterator_from_dataset(dataset, shuffle=False) (lines 138-141)
BatchStart ==
  /\ bstatus = "start"
  /\ IF mode = "sample" /\ batch_size = 0
     THEN \* self.batch_size is None: one run over the whole input
          /\ res' = RunBatch(Arange(nsamps))
          /\ bstatus' = "returned"
     ELSE IF mode = "sample" /\ nsamps % batch_size # 0
     THEN /\ res' = res
          /\ bstatus' = "ValueError"
     ELSE /\ res' = IF mode = "sample" THEN [k \in 1..nsamps |-> 0] ELSE res
          /\ bstatus' = "running"
  /\ idx' = 0
  /\ icount' = 0
  /\ batches' = <<>>
  /\ UNCHANGED <<nsamps, batch_size, mode, cellVars, dataVars>>

\* One batch: the generator's yield (lines 142-144) and, in sample, the loop body
\* that consumes it (lines 187-190)
BatchNext ==
  /\ bstatus = "running"
  /\ idx < nsamps \div batch_size
  /\ LET batch == BatchOf(Arange(nsamps), idx, batch_size)
         r == RunBatch(batch)
     IN  /\ batches' = Append(batches, batch)
         /\ IF mode = "sample"
            THEN IF RowsInSlice(res, icount, batch_size) = Len(r)
                 THEN /\ res' = AssignRows(res, icount, batch_size, r)
                      /\ icount' = icount + 1
                      /\ bstatus' = bstatus
                 ELSE \* numpy cannot broadcast r into the slice
                      /\ res' = res
                      /\ icount' = icount
                      /\ bstatus' = "ValueError"
            ELSE UNCHANGED <<res, icount, bstatus>>
  /\ idx' = idx + 1
  /\ UNCHANGED <<nsamps, batch_size, mode, cellVars, dataVars>>

\* The generator is exhausted; sample returns res (line 191)
BatchReturn ==
  /\ bstatus = "running"
  /\ idx >= nsamps \div batch_size
  /\ bstatus' = "returned"
  /\ UNCHANGED <<nsamps, batch_size, mode, idx, batches, res, icount,
                 cellVars, dataVars>>

InitBatch ==
  /\ nsamps \in 0..MaxSamples
  /\ mode \in {"iterate", "sample"}
  /\ batch_size \in (IF mode = "sample" THEN 0..MaxBatch ELSE 1..MaxBatch)
  /\ idx = 0
  /\ batches = <<>>
  /\ res = <<>>
  /\ icount = 0
  /\ bstatus = "start"
  /\ CellsIdle
  /\ DataIdle

NextBatch == BatchStart \/ BatchNext \/ BatchReturn

SpecBatch == InitBatch /\ [][NextBatch]_vars

\* C10: with shuffle=False the iterator yields floor(n/b) batches of b samples each,
\* batch k holding the samples k*b..(k+1)*b-1, so the batches are pairwise disjoint;
\* and sample writes batch k's result into the rows k*b..(k+1)*b-1 of its output, so
\* every input sample has its own output row.
C10_BatchesPartitionTheSamples ==
  (bstatus = "returned" /\ batch_size > 0)
  => /\ Len(batches) = nsamps \div batch_size
     /\ \A k \in DOMAIN batches :
          batches[k] = [j \in 1..batch_size |-> (k - 1) * batch_size + j - 1]
     /\ \A k, l \in DOMAIN batches :
          k # l => {batches[k][j] : j \in DOMAIN batches[k]}
                     \cap {batches[l][j] : j \in DOMAIN batches[l]} = {}
     /\ mode = "sample" => res = [k \in 1..nsamps |-> k]

====
